---- MODULE Spec2Model ----
(***************************************************************************)
(* Model of pdf-swissarmyknife.py: one invocation of the script reads      *)
(* sys.argv[1], opens the PDF, extracts the text of every page into a      *)
(* list, and dumps the list as JSON to <filename>.json.  The file system   *)
(* persists between invocations; the script may be invoked again.          *)
(***************************************************************************)
EXTENDS Integers, Sequences, FiniteSets

\* ------------------------------------------------------------------ bounds
MaxPages == 2      \* documents have 0..MaxPages pages
MaxArgs  == 2      \* invocations carry 0..MaxArgs command-line arguments

\* ------------------------------------------------------------- environment
\* A path is a sequence of name parts, so that string concatenation is \o.
PathA == <<"a.pdf">>
PathB == <<"b.pdf">>
Paths == {PathA, PathB}

\* What page.extract_text() yields for a page: a string (a sequence of
\* characters), or an exception for a page that cannot be decoded.
Corrupt   == [ok |-> FALSE]
Page(s)   == [ok |-> TRUE, text |-> s]
PageTexts == { <<>>, <<"H", "\"">>, <<"\\", "\n">> }
PageKinds == { Page(s) : s \in PageTexts } \cup {Corrupt}

RECURSIVE SeqsUpTo(_, _)
SeqsUpTo(S, n) ==
    IF n = 0 THEN { <<>> }
    ELSE LET shorter == SeqsUpTo(S, n - 1)
         IN  shorter \cup { Append(s, x) : s \in { t \in shorter : Len(t) = n - 1 }, x \in S }

\* File contents.
Absent      == [kind |-> "absent"]
Data(bytes) == [kind |-> "data", bytes |-> bytes]
Pdf(pages)  == [kind |-> "pdf", pages |-> pages]
OldData     == Data(<<"o", "l", "d">>)
Docs        == { Pdf(p) : p \in SeqsUpTo(PageKinds, MaxPages) }

\* The command lines tried: the first argument is any path, the further
\* arguments are PathB.
ArgvOf(p, n) == [i \in 1..n |-> IF i = 1 THEN p ELSE PathB]
Argvs        == { ArgvOf(p, n) : p \in Paths, n \in 0..MaxArgs }

\* Values of variables that hold nothing yet.
None     == "none"                    \* no exception
NoPath   == <<>>                      \* filename not assigned
NoFile   == [open |-> FALSE, path |-> <<>>, buf |-> <<>>]
NoOutput == [kind |-> "none"]
Running  == -1                        \* the process has not exited

VARIABLES
    argv,      \* sys.argv[1:], the same for every invocation of a behaviour
    fs,        \* the file system: path -> content
    pc,        \* position of the script
    filename,  \* line 6
    reader,    \* line 7: the pages of the opened document
    text,      \* line 8: the list under construction
    fp,        \* line 9: the file object open(...) returned, or NoFile
    nchunk,    \* line 9: chunks json.dump has handed to fp.write
    err,       \* the exception that ended the run, or None
    lost,      \* a flush failure was swallowed when fp was finalized
    exitcode,  \* exit status of the process, Running until it exits
    prev,      \* the file system when this invocation started
    lastOut    \* output left by the last invocation whose write completed

vars == <<argv, fs, pc, filename, reader, text, fp, nchunk, err, lost,
          exitcode, prev, lastOut>>

\* ------------------------------------------------------------ line 9 parts
\* Mutant of OutPath: the suffix is forgotten, the output goes to the input path.
OutPathNoSuffix(f) == f

\* filename + '.json'
OutPath(f) == f \o <<".json">>

Files == Paths \cup { OutPath(p) : p \in Paths }

\* json's string encoder: quotes the string, escapes '"' and '\' with a
\* backslash and writes a newline as the two characters '\' 'n'.
EscapeChar(c) ==
    IF c = "\"" THEN <<"\\", "\"">>
    ELSE IF c = "\\" THEN <<"\\", "\\">>
    ELSE IF c = "\n" THEN <<"\\", "n">>
    ELSE <<c>>

RECURSIVE EscapeAll(_)
EscapeAll(s) ==
    IF s = <<>> THEN <<>> ELSE EscapeChar(Head(s)) \o EscapeAll(Tail(s))

EncodeString(s) == <<"\"">> \o EscapeAll(s) \o <<"\"">>

\* The chunks json.dump(text, fp) hands to fp.write, in order: '[]' for the
\* empty list; otherwise '[' + first item, then ', ' + item for each further
\* item, then ']'.
Chunks(lst) ==
    IF lst = <<>> THEN << <<"[", "]">> >>
    ELSE [k \in 1..(Len(lst) + 1) |->
            IF k = 1 THEN <<"[">> \o EncodeString(lst[1])
            ELSE IF k <= Len(lst) THEN <<",", " ">> \o EncodeString(lst[k])
            ELSE <<"]">>]

RECURSIVE Flatten(_)
Flatten(ss) == IF ss = <<>> THEN <<>> ELSE Head(ss) \o Flatten(Tail(ss))

\* Everything json.dump(lst, fp) writes.
JsonDump(lst) == Flatten(Chunks(lst))

\* ------------------------------------------------------------------- Init
Fresh(a, f) ==
    /\ argv = a
    /\ fs = f
    /\ pc = "line6"
    /\ filename = NoPath
    /\ reader = <<>>
    /\ text = <<>>
    /\ fp = NoFile
    /\ nchunk = 0
    /\ err = None
    /\ lost = FALSE
    /\ exitcode = Running
    /\ prev = f

Init ==
    /\ \E a \in Argvs, da \in {Absent, OldData} \cup Docs, pre \in {Absent, OldData} :
          Fresh(a, [p \in Files |->
                      IF p = PathA THEN da
                      ELSE IF p = PathB THEN Pdf(<< Page(<<"H", "\"">>) >>)
                      ELSE pre])
    /\ lastOut = NoOutput

\* --------------------------------------------------------------- the script
\* An uncaught exception before any file object exists: the traceback is
\* printed and the process exits with status 1.
Raise(e) ==
    /\ err' = e
    /\ pc' = "exit"
    /\ exitcode' = 1

\* line 6: filename = sys.argv[1]
ReadArgv ==
    /\ pc = "line6"
    /\ IF Len(argv) >= 1
       THEN /\ filename' = argv[1]
            /\ pc' = "line7"
            /\ UNCHANGED <<err, exitcode>>
       ELSE /\ Raise("IndexError")
            /\ UNCHANGED filename
    /\ UNCHANGED <<argv, fs, reader, text, fp, nchunk, lost, prev, lastOut>>

\* line 7: reader = PdfReader(filename)
OpenDocument ==
    /\ pc = "line7"
    /\ IF fs[filename].kind = "absent"
       THEN Raise("FileNotFoundError") /\ UNCHANGED reader
       ELSE IF fs[filename].kind # "pdf"
       THEN Raise("PdfReadError") /\ UNCHANGED reader
       ELSE /\ reader' = fs[filename].pages
            /\ pc' = "line8"
            /\ UNCHANGED <<err, exitcode>>
    /\ UNCHANGED <<argv, fs, filename, text, fp, nchunk, lost, prev, lastOut>>

\* Mutant of ExtractPage: each text is put in front of the list.
ExtractPagePrepend ==
    /\ pc = "line8"
    /\ Len(text) < Len(reader)
    /\ LET page == reader[Len(text) + 1]
       IN  IF page = Corrupt
           THEN Raise("ExtractError") /\ UNCHANGED text
           ELSE /\ text' = <<page.text>> \o text
                /\ UNCHANGED <<pc, err, exitcode>>
    /\ UNCHANGED <<argv, fs, filename, reader, fp, nchunk, lost, prev, lastOut>>

\* Mutant of ExtractPage: a page that cannot be decoded yields '' and the
\* run goes on.
ExtractPageSkipErrors ==
    /\ pc = "line8"
    /\ Len(text) < Len(reader)
    /\ LET page == reader[Len(text) + 1]
       IN  text' = Append(text, IF page = Corrupt THEN <<>> ELSE page.text)
    /\ UNCHANGED <<argv, fs, pc, filename, reader, fp, nchunk, err, lost,
                   exitcode, prev, lastOut>>

\* line 8, one iteration of the comprehension over reader.pages:
\* page.extract_text() is appended to the list.
ExtractPage ==
    /\ pc = "line8"
    /\ Len(text) < Len(reader)
    /\ LET page == reader[Len(text) + 1]
       IN  IF page = Corrupt
           THEN Raise("ExtractError") /\ UNCHANGED text
           ELSE /\ text' = Append(text, page.text)
                /\ UNCHANGED <<pc, err, exitcode>>
    /\ UNCHANGED <<argv, fs, filename, reader, fp, nchunk, lost, prev, lastOut>>

\* Mutant of EndPages: the output is started before the last page is read.
EndPagesEarly ==
    /\ pc = "line8"
    /\ pc' = "line9"
    /\ UNCHANGED <<argv, fs, filename, reader, text, fp, nchunk, err, lost,
                   exitcode, prev, lastOut>>

\* line 8: the iterator over reader.pages is exhausted.
EndPages ==
    /\ pc = "line8"
    /\ Len(text) = Len(reader)
    /\ pc' = "line9"
    /\ UNCHANGED <<argv, fs, filename, reader, text, fp, nchunk, err, lost,
                   exitcode, prev, lastOut>>

\* Mutant of OpenOutput: mode 'a', an existing file is kept and appended to.
OpenOutputAppend ==
    /\ pc = "line9"
    /\ \E ok \in BOOLEAN :
          IF ok
          THEN /\ fs' = IF fs[OutPath(filename)].kind = "data" THEN fs
                        ELSE [fs EXCEPT ![OutPath(filename)] = Data(<<>>)]
               /\ fp' = [open |-> TRUE, path |-> OutPath(filename), buf |-> <<>>]
               /\ pc' = "dump"
               /\ UNCHANGED <<err, exitcode>>
          ELSE /\ Raise("OpenError")
               /\ UNCHANGED <<fs, fp>>
    /\ UNCHANGED <<argv, filename, reader, text, nchunk, lost, prev, lastOut>>

\* line 9: open(filename + '.json', 'w'): creates the file or truncates it.
OpenOutput ==
    /\ pc = "line9"
    /\ \E ok \in BOOLEAN :
          IF ok
          THEN /\ fs' = [fs EXCEPT ![OutPath(filename)] = Data(<<>>)]
               /\ fp' = [open |-> TRUE, path |-> OutPath(filename), buf |-> <<>>]
               /\ pc' = "dump"
               /\ UNCHANGED <<err, exitcode>>
          ELSE /\ Raise("OpenError")
               /\ UNCHANGED <<fs, fp>>
    /\ UNCHANGED <<argv, filename, reader, text, nchunk, lost, prev, lastOut>>

\* The bytes of buf reach the file.
Flushed(f, path, buf) ==
    [f EXCEPT ![path] = Data(f[path].bytes \o buf)]

\* line 9: json.dump's loop, one fp.write(chunk).  The chunk goes to fp's
\* buffer; the buffer is written through when it is full, and that write may
\* fail (OSError).  After the last chunk json.dump returns and the file
\* object, which nothing references, is left to be finalized.
WriteChunk ==
    /\ pc = "dump"
    /\ nchunk < Len(Chunks(text))
    /\ LET buf == fp.buf \o Chunks(text)[nchunk + 1]
           last == nchunk + 1 = Len(Chunks(text))
       IN  \E flush \in {"no", "ok", "fail"} :
              /\ nchunk' = nchunk + 1
              /\ CASE flush = "no" ->
                        /\ fp' = [fp EXCEPT !.buf = buf]
                        /\ pc' = IF last THEN "close" ELSE "dump"
                        /\ UNCHANGED <<fs, err, exitcode>>
                   [] flush = "ok" ->
                        /\ fp' = [fp EXCEPT !.buf = <<>>]
                        /\ fs' = Flushed(fs, fp.path, buf)
                        /\ pc' = IF last THEN "close" ELSE "dump"
                        /\ UNCHANGED <<err, exitcode>>
                   [] flush = "fail" ->
                        /\ fp' = [fp EXCEPT !.buf = buf]
                        /\ err' = "WriteError"
                        /\ pc' = "close"
                        /\ UNCHANGED <<fs, exitcode>>
    /\ UNCHANGED <<argv, filename, reader, text, lost, prev, lastOut>>

\* line 9: the file object is never closed by the script; it is finalized
\* when it is collected (after json.dump returns, or at interpreter exit after
\* an exception).  The finalizer flushes the buffer and closes the file; an
\* error raised by that flush is ignored, and the exit status is unaffected.
CloseOutput ==
    /\ pc = "close"
    /\ \E ok \in (IF fp.buf = <<>> THEN {TRUE} ELSE BOOLEAN) :
          /\ fs' = IF ok THEN Flushed(fs, fp.path, fp.buf) ELSE fs
          /\ lost' = ~ok
          /\ lastOut' = IF ok /\ err = None
                        THEN Flushed(fs, fp.path, fp.buf)[fp.path]
                        ELSE lastOut
    /\ fp' = NoFile
    /\ exitcode' = IF err = None THEN 0 ELSE 1
    /\ pc' = "exit"
    /\ UNCHANGED <<argv, filename, reader, text, nchunk, err, prev>>

\* The process is terminated from outside (SIGKILL): nothing buffered is
\* written, the operating system closes the file.
Kill ==
    /\ pc # "exit"
    /\ err' = "Killed"
    /\ fp' = NoFile
    /\ exitcode' = 137
    /\ pc' = "exit"
    /\ UNCHANGED <<argv, fs, filename, reader, text, nchunk, lost, prev, lastOut>>

\* The script is invoked again with the same command line.
Rerun ==
    /\ pc = "exit"
    /\ pc' = "line6"
    /\ filename' = NoPath
    /\ reader' = <<>>
    /\ text' = <<>>
    /\ fp' = NoFile
    /\ nchunk' = 0
    /\ err' = None
    /\ lost' = FALSE
    /\ exitcode' = Running
    /\ prev' = fs
    /\ UNCHANGED <<argv, fs, lastOut>>

Next ==
    \/ ReadArgv
    \/ OpenDocument
    \/ ExtractPage
    \/ EndPages
    \/ OpenOutput
    \/ WriteChunk
    \/ CloseOutput
    \/ Kill
    \/ Rerun

Spec == Init /\ [][Next]_vars

\* ------------------------------------------------------- reading the output
\* Reads back a JSON array of strings as json.dump writes it: '[]', or '['
\* item (', ' item)* ']' with each item quoted, '\' 'n' standing for a newline
\* and '\' otherwise escaping the next character.  Yields [ok |-> FALSE] for
\* anything else.
Malformed == [ok |-> FALSE]

RECURSIVE ReadString(_, _, _)
ReadString(b, j, acc) ==
    IF j > Len(b) THEN Malformed
    ELSE IF b[j] = "\"" THEN [ok |-> TRUE, val |-> acc, next |-> j + 1]
    ELSE IF b[j] = "\\"
         THEN IF j + 1 > Len(b) THEN Malformed
              ELSE ReadString(b, j + 2,
                              Append(acc, IF b[j + 1] = "n" THEN "\n" ELSE b[j + 1]))
    ELSE ReadString(b, j + 1, Append(acc, b[j]))

RECURSIVE ReadItems(_, _, _)
ReadItems(b, i, acc) ==
    IF i > Len(b) \/ b[i] # "\"" THEN Malformed
    ELSE LET s == ReadString(b, i + 1, <<>>)
         IN  IF ~s.ok THEN Malformed
             ELSE IF s.next = Len(b) /\ b[s.next] = "]"
                  THEN [ok |-> TRUE, val |-> Append(acc, s.val)]
             ELSE IF s.next + 1 <= Len(b) /\ b[s.next] = "," /\ b[s.next + 1] = " "
                  THEN ReadItems(b, s.next + 2, Append(acc, s.val))
             ELSE Malformed

JsonLoad(b) ==
    IF b = <<"[", "]">> THEN [ok |-> TRUE, val |-> <<>>]
    ELSE IF Len(b) >= 1 /\ b[1] = "[" THEN ReadItems(b, 2, <<>>)
    ELSE Malformed

\* ----------------------------------------------------------------- claims
\* The document the run was given, and its output file.
Input  == fs[filename]
Output == fs[filename \o <<".json">>]
OutputBefore == prev[filename \o <<".json">>]

\* The texts of all pages of a document, in page order.
TextsOf(doc) == [i \in 1..Len(doc.pages) |-> doc.pages[i].text]

\* The run has ended and every stage of it completed: no exception, and no
\* write failure swallowed.
Completed == pc = "exit" /\ err = None /\ ~lost

\* The input cannot be read to the end: missing, not a PDF, or some page
\* cannot be decoded.
Unreadable ==
    \/ Input.kind # "pdf"
    \/ \E k \in 1..Len(Input.pages) : ~Input.pages[k].ok

\* C1: a run that completes on an N-page document leaves a JSON array of
\* exactly N elements whose element i is the text of page i; while the list
\* is built it is always the texts of the first Len(text) pages, in order.
C1_PagesInOrder ==
    /\ Len(text) <= Len(reader)
    /\ \A i \in 1..Len(text) : reader[i].ok /\ text[i] = reader[i].text
    /\ Completed =>
          /\ Output.kind = "data"
          /\ JsonLoad(Output.bytes).ok
          /\ Len(JsonLoad(Output.bytes).val) = Len(Input.pages)
          /\ JsonLoad(Output.bytes).val = TextsOf(Input)

C1_Witness ==
    /\ Completed
    /\ Len(Input.pages) = 2
    /\ Input.pages[1] # Input.pages[2]
    /\ JsonLoad(Output.bytes).val = <<Input.pages[1].text, Input.pages[2].text>>

\* C2: when the input is missing, is not a PDF, or has a page whose
\* extraction fails, the output file is at no time created or modified, no
\* output handle is opened, and the run ends with a non-zero exit code.
C2_NoOutputOnReadFailure ==
    (filename # NoPath /\ Unreadable) =>
        /\ Output = OutputBefore
        /\ ~fp.open
        /\ pc = "exit" => exitcode # 0

C2_Witness ==
    /\ pc = "exit"
    /\ err = "ExtractError"
    /\ Len(text) >= 1
    /\ OutputBefore = OldData
    /\ Output = OldData

\* C3: the exit code is 0 if and only if every stage completed; a missing
\* argument, a missing file, a parse failure and a write failure each end
\* the run with a non-zero exit code.
C3_ExitZeroIffAllStages ==
    pc = "exit" => (exitcode = 0 <=> (err = None /\ ~lost))

\* C4: an invocation with zero arguments or with more than one argument
\* ends with a non-zero exit code, without the script taking an input path,
\* opening a document or writing a file.
C4_ExactlyOneArgument ==
    (pc = "exit" /\ Len(argv) # 1 /\ err # "Killed") =>
        /\ exitcode # 0
        /\ filename = NoPath
        /\ fs = prev

\* C5: a run changes no file but the one at filename + '.json'; a run that
\* completes leaves there exactly the serialized list, whatever the file
\* held before.
C5_OnlyOutputWritten ==
    /\ \A p \in DOMAIN fs : p # filename \o <<".json">> => fs[p] = prev[p]
    /\ Completed => Output = Data(JsonDump(TextsOf(Input)))

C5_Witness ==
    /\ Completed
    /\ OutputBefore = OldData
    /\ Output # OldData
    /\ Len(argv) = 1

\* C6: in every state of a run the file at filename + '.json' is absent,
\* holds its previous content, or holds the complete JSON array: never a
\* truncated or empty one.
C6_OutputNeverTruncated ==
    filename # NoPath =>
        \/ Output = OutputBefore
        \/ /\ Input.kind = "pdf"
           /\ ~Unreadable
           /\ Output = Data(JsonDump(TextsOf(Input)))

\* C7: once a completed run has left an output, every later completed run
\* on the same input leaves byte-identical content.
C7_Deterministic ==
    [][lastOut # NoOutput => lastOut' = lastOut]_vars

\* A second completed run, started over the output of an earlier one.
C7_Witness ==
    /\ Completed
    /\ lastOut # NoOutput
    /\ OutputBefore = lastOut
    /\ Output = lastOut

\* C8: the output file is opened or written only after the text of the last
\* page has been extracted, and each chunk of the one serialization reaches
\* the file object exactly once, in order.
C8_WriteOnce ==
    /\ (filename # NoPath /\ (fp.open \/ Output # OutputBefore)) =>
          /\ Len(text) = Len(reader)
          /\ pc \in {"dump", "close", "exit"}
    /\ fp.open =>
          /\ nchunk <= Len(Chunks(text))
          /\ Output.bytes \o fp.buf = Flatten(SubSeq(Chunks(text), 1, nchunk))

C8_Witness ==
    /\ pc = "dump"
    /\ Len(reader) >= 2
    /\ nchunk >= 1
    /\ Output.bytes # <<>>
    /\ fp.buf # <<>>

\* C10: whenever a run ends with exit code 0, the output file exists, is
\* closed, and holds the complete array of all page texts.
C10_ExitZeroOutputComplete ==
    (pc = "exit" /\ exitcode = 0) =>
        /\ ~fp.open
        /\ Output.kind = "data"
        /\ Output.bytes = JsonDump(TextsOf(Input))

====
